---- MODULE Spec2Model ----
(***************************************************************************)
(* Sensor readings pipeline of project-4:                                  *)
(*   normalize_readings.py  (Normalizer)                                   *)
(*   measure_rdflib.py      (Graph Builder)                                *)
(*   qc_fix.py, run_sparql_qc.py  (Validator)                              *)
(*                                                                         *)
(* Text is modelled as a tuple of characters, each character a one-letter  *)
(* string; the non-ASCII letters of the source are written "U03A9",        *)
(* "U03C9" and "U00B0".                                                    *)
(***************************************************************************)
EXTENDS Integers, Sequences, FiniteSets, TLC

VARIABLES
    \* Graph Builder (measure_rdflib.py)
    csv,        \* data/readings_normalized.csv: [exists, rows]
    graph,      \* the module-level rdflib Graph: a set of triples
    ttl,        \* measure_cco.ttl: [kind, triples]
    bcalls,     \* the builder entry points run so far, in order
    \* Validator (qc_fix.py / run_sparql_qc.py)
    qscript,    \* which of the two scripts runs
    qpc,        \* position in the script
    qg,         \* the parsed graph g
    qexit,      \* the process exit status, -1 while running
    qout,       \* what the script printed, in order
    \* Normalizer (normalize_readings.py)
    inA, inB, inC,  \* the three input files: [exists, ...]
    npc,        \* position in main()
    dfs,        \* df_a, df_b, df_c once loaded
    cleaned,    \* the DataFrame normalize_and_clean returned
    outFile,    \* data/readings_normalized.csv as written by main
    \* unit alias normalisation applied to one token
    utok, uonce, utwice, upc,
    \* identifier generation applied to two artifact ids
    aid1, aid2, auri1, auri2, spc

bvars == <<csv, graph, ttl, bcalls>>
qvars == <<qscript, qpc, qg, qexit, qout>>
nvars == <<inA, inB, inC, npc, dfs, cleaned, outFile>>
uvars == <<utok, uonce, utwice, upc>>
svars == <<aid1, aid2, auri1, auri2, spc>>
vars == <<bvars, qvars, nvars, uvars, svars>>

(***************************************************************************)
(* Bounds of the model.                                                    *)
(***************************************************************************)
MaxIdLen == 3       \* longest artifact id given to the identifier generation
MaxTokLen == 2      \* longest free-form unit token given to the alias lookup
MaxRows == 2        \* rows of the canonical table given to the Graph Builder
MaxCalls == 2       \* builder entry points run in one process
MaxCsvRows == 1     \* rows of sensor_A.csv

(***************************************************************************)
(* Text helpers: Python str methods and the re.sub calls of the source.    *)
(***************************************************************************)
\* the characters of the modelled texts in code point order; "U00B0" is the
\* degree sign, "U03A9" and "U03C9" the capital and the small omega
CharOrder ==
    <<" ", "+", "-", ".", "/",
      "0", "1", "2", "3", "4", "5", "6", "7", "8", "9", ":", "@",
      "A", "B", "C", "D", "E", "F", "G", "H", "I", "J", "K", "L", "M",
      "N", "O", "P", "Q", "R", "S", "T", "U", "V", "W", "X", "Y", "Z",
      "_",
      "a", "b", "c", "d", "e", "f", "g", "h", "i", "j", "k", "l", "m",
      "n", "o", "p", "q", "r", "s", "t", "u", "v", "w", "x", "y", "z", "|",
      "U00B0", "U03A9", "U03C9">>

AllChars == {CharOrder[i] : i \in 1..Len(CharOrder)}

OrdOf == [c \in AllChars |-> CHOOSE i \in 1..Len(CharOrder) : CharOrder[i] = c]

\* ord(c), up to an order-preserving renumbering
Ord(c) == OrdOf[c]
DigitChars == {c \in AllChars : Ord("0") <= Ord(c) /\ Ord(c) <= Ord("9")}
UpperChars == {c \in AllChars : Ord("A") <= Ord(c) /\ Ord(c) <= Ord("Z")}
LowerChars == {c \in AllChars : Ord("a") <= Ord(c) /\ Ord(c) <= Ord("z")}
\* [A-Za-z0-9_]
WordChars == UpperChars \cup LowerChars \cup DigitChars \cup {"_"}
\* [a-z0-9]
LowerAlnum == LowerChars \cup DigitChars
\* [^A-Za-z0-9_] and [^a-z0-9]
NonWordChars == AllChars \ WordChars
NonLowerAlnum == AllChars \ LowerAlnum
Letters == UpperChars \cup LowerChars

\* str.lower() on one character
LowerChar(c) ==
    IF c \in UpperChars THEN CharOrder[Ord(c) - Ord("A") + Ord("a")]
    ELSE IF c = "U03A9" THEN "U03C9"
    ELSE c

\* str.upper() on one character
UpperChar(c) ==
    IF c \in LowerChars THEN CharOrder[Ord(c) - Ord("a") + Ord("A")]
    ELSE IF c = "U03C9" THEN "U03A9"
    ELSE c

\* str.title(): a letter that follows no letter is upper-cased, the others
\* lower-cased
Title(s) ==
    [i \in 1..Len(s) |->
        IF i = 1 \/ s[i - 1] \notin Letters
        THEN UpperChar(s[i]) ELSE LowerChar(s[i])]

\* str.lower()
Lower(s) == [i \in 1..Len(s) |-> LowerChar(s[i])]

\* Python's s < t on str: lexicographic by code point
RECURSIVE StrLess(_, _)
StrLess(s, t) ==
    IF t = <<>> THEN FALSE
    ELSE IF s = <<>> THEN TRUE
    ELSE IF Ord(Head(s)) # Ord(Head(t)) THEN Ord(Head(s)) < Ord(Head(t))
    ELSE StrLess(Tail(s), Tail(t))

\* str.strip(chars) for a set of characters
RECURSIVE LStrip(_, _)
LStrip(s, cs) == IF s # <<>> /\ Head(s) \in cs THEN LStrip(Tail(s), cs) ELSE s

RECURSIVE RStrip(_, _)
RStrip(s, cs) ==
    IF s # <<>> /\ s[Len(s)] \in cs THEN RStrip(SubSeq(s, 1, Len(s) - 1), cs) ELSE s

StripChars(s, cs) == RStrip(LStrip(s, cs), cs)

\* str.strip(): surrounding whitespace
Strip(s) == StripChars(s, {" "})

\* str.replace(a, b) for single characters
ReplaceChar(s, a, b) == [i \in 1..Len(s) |-> IF s[i] = a THEN b ELSE s[i]]

\* re.sub(<class>+, rep, s): every maximal run of characters of the class cs
\* becomes rep (a text, possibly empty)
RECURSIVE SubRuns(_, _, _)
SubRuns(s, cs, rep) ==
    IF s = <<>> THEN <<>>
    ELSE IF Head(s) \in cs
         THEN rep \o SubRuns(LStrip(s, cs), cs, rep)
         ELSE <<Head(s)>> \o SubRuns(Tail(s), cs, rep)

\* all texts over an alphabet up to a length
RECURSIVE TextsUpTo(_, _)
TextsUpTo(alphabet, n) ==
    IF n = 0 THEN {<<>>}
    ELSE LET shorter == TextsUpTo(alphabet, n - 1)
         IN  shorter \cup {Append(s, c) : s \in shorter, c \in alphabet}

(***************************************************************************)
(* _slug, measure_rdflib.py                                                *)
(***************************************************************************)
_slug(text) ==
    LET t1 == StripChars(SubRuns(text, NonWordChars, <<"-">>), {"-"})
        t2 == SubRuns(t1, {"-"}, <<"-">>)
    IN  IF t2 = <<>> THEN <<"n", "a">> ELSE t2

(***************************************************************************)
(* RDF terms.  A term is a record [ns, name, key, num]: an IRI is its      *)
(* namespace ns followed by the fixed local name `name` or by the computed *)
(* text `key`; a literal has ns "literal", its datatype or language tag in *)
(* name, and its lexical value in key (a text) or num (a number).  A graph *)
(* is a set of <<subject, predicate, object>> triples, as rdflib's Graph.  *)
(***************************************************************************)
\* measure_rdflib.py names its namespaces NS_EX, NS_CCO, NS_OBO, NS_EXC and
\* NS_EXPROP and later refers to them as ex, NS_cco, NS_obo, exc and exprop;
\* the second spelling is read as the first.
NS_EX == "http://example.org/measurement/"
NS_CCO == "https://www.commoncoreontologies.org/CommonCoreOntologiesMerged/"
NS_OWL == "http://www.w3.org/2002/07/owl#"
NS_OBO == "http://purl.obolibrary.org/obo/"
NS_RDF == "http://www.w3.org/1999/02/22-rdf-syntax-ns#"
NS_XSD == "http://www.w3.org/2001/XMLSchema#"
NS_EXPROP == "http://example.org/props#"
NS_EXC == "http://example.org/classes#"
NS_RDFS == "http://www.w3.org/2000/01/rdf-schema#"

\* Namespace.attr and URIRef(str)
Iri(ns, name) == [ns |-> ns, name |-> name, key |-> <<>>, num |-> 0]
\* URIRef(ns + text)
IriText(ns, text) == [ns |-> ns, name |-> "", key |-> text, num |-> 0]
\* Literal(text, lang="en")
LitEn(text) == [ns |-> "literal", name |-> "@en", key |-> text, num |-> 0]
\* Literal(number, datatype=XSD.decimal)
LitDecimal(n) == [ns |-> "literal", name |-> "xsd:decimal", key |-> <<>>, num |-> n]
\* Literal(text, datatype=XSD.dateTime)
LitDateTime(text) == [ns |-> "literal", name |-> "xsd:dateTime", key |-> text, num |-> 0]

RDF_type == Iri(NS_RDF, "type")
RDFS_label == Iri(NS_RDFS, "label")
RDFS_comment == Iri(NS_RDFS, "comment")
RDFS_subClassOf == Iri(NS_RDFS, "subClassOf")
OWL_Class == Iri(NS_OWL, "Class")

\* the exact IRIs: the block at the head of measure_rdflib.py, and the
\* constants of qc_fix.py and run_sparql_qc.py
CCO_ROOT == "https://www.commoncoreontologies.org/"
IRI_SDC == Iri("http://purl.obolibrary.org/obo/", "BFO_0000020")
IRI_ART == Iri(CCO_ROOT, "ont00000995")
IRI_MICE == Iri(CCO_ROOT, "ont00001163")
IRI_MU == Iri(CCO_ROOT, "ont00000120")
IRI_BEARER_OF == Iri("http://purl.obolibrary.org/obo/", "BFO_0000196")
IRI_IS_MEASURE_OF == Iri(CCO_ROOT, "ont00001966")
IRI_USES_MU == Iri(CCO_ROOT, "ont00001863")
IRI_HAS_VALUE == Iri(CCO_ROOT, "ont00001769")
IRI_HAS_TIMESTAMP == Iri(CCO_ROOT, "ont00001767")

\* graph queries: g.subjects(p, o), g.objects(s, p)
Subjects(g, p, o) == {t[1] : t \in {u \in g : u[2] = p /\ u[3] = o}}
Objects(g, s, p) == {t[3] : t \in {u \in g : u[1] = s /\ u[2] = p}}

(***************************************************************************)
(* Numbers in cells: pd.to_numeric(errors="coerce") and float() on the     *)
(* text of a cell.  The numeric texts modelled are the digit strings.      *)
(***************************************************************************)
DigitValue(c) == Ord(c) - Ord("0")

RECURSIVE DigitsValue(_)
DigitsValue(s) ==
    IF s = <<>> THEN 0
    ELSE 10 * DigitsValue(SubSeq(s, 1, Len(s) - 1)) + DigitValue(s[Len(s)])

IsNumericText(s) ==
    LET t == Strip(s) IN t # <<>> /\ \A i \in 1..Len(t) : t[i] \in DigitChars

\* the parsed number; only used where IsNumericText holds
NumberOf(s) == DigitsValue(Strip(s))

(***************************************************************************)
(* measure_rdflib.py: kind and unit aliases                                *)
(***************************************************************************)
\* KIND_ALIASES, in the dict's order
KIND_ALIASES ==
    << [canonical |-> <<"T", "e", "m", "p", "e", "r", "a", "t", "u", "r", "e">>,
        forms |-> {<<"t", "e", "m", "p", "e", "r", "a", "t", "u", "r", "e">>, <<"t", "e", "m", "p">>, <<"t", "m", "p">>, <<"t">>, <<"d", "e", "g", "c">>, <<"d", "e", "g", "f">>, <<"c">>, <<"f">>}],
       [canonical |-> <<"P", "r", "e", "s", "s", "u", "r", "e">>,
        forms |-> {<<"p", "r", "e", "s", "s", "u", "r", "e">>, <<"p", "r", "e", "s", "s">>, <<"p", "s", "i">>, <<"b", "a", "r">>, <<"p", "a">>, <<"k", "p", "a">>}],
       [canonical |-> <<"H", "u", "m", "i", "d", "i", "t", "y">>,
        forms |-> {<<"h", "u", "m", "i", "d", "i", "t", "y">>, <<"r", "h">>, <<"r", "e", "l", " ", "h", "u", "m", "i", "d", "i", "t", "y">>, <<"r", "e", "l", "a", "t", "i", "v", "e", " ", "h", "u", "m", "i", "d", "i", "t", "y">>}],
       [canonical |-> <<"R", "e", "s", "i", "s", "t", "a", "n", "c", "e">>,
        forms |-> {<<"r", "e", "s", "i", "s", "t", "a", "n", "c", "e">>, <<"r", "e", "s">>, <<"o", "h", "m">>, <<"o", "h", "m", "s">>, <<"U03C9">>, <<"r">>}],
       [canonical |-> <<"V", "o", "l", "t", "a", "g", "e">>,
        forms |-> {<<"v", "o", "l", "t", "a", "g", "e">>, <<"v", "o", "l", "t">>, <<"v", "o", "l", "t", "s">>, <<"v">>}] >>

QUALITIES_FOR_CLASSING == {<<"P", "r", "e", "s", "s", "u", "r", "e">>, <<"T", "e", "m", "p", "e", "r", "a", "t", "u", "r", "e">>, <<"R", "e", "s", "i", "s", "t", "a", "n", "c", "e">>, <<"V", "o", "l", "t", "a", "g", "e">>}

\* canonicalize_kind: <<canonical label, slug>>
canonicalize_kind(raw) ==
    LET base0 == Lower(Strip(raw))
        base == Strip(SubRuns(base0, NonLowerAlnum, <<" ">>))
        hits == {i \in 1..Len(KIND_ALIASES) : base \in KIND_ALIASES[i].forms}
    IN  IF hits # {}
        THEN LET i == CHOOSE j \in hits : \A k \in hits : j <= k
             IN  <<KIND_ALIASES[i].canonical, _slug(Lower(KIND_ALIASES[i].canonical))>>
        ELSE LET canon == IF base # <<>> THEN Title(base) ELSE <<"U", "n", "k", "n", "o", "w", "n">>
             IN  <<canon, _slug(Lower(canon))>>

\* UNIT_ALIASES, in the dict's order
UNIT_ALIASES ==
    << [canon |-> <<"c">>, forms |-> {<<"c">>, <<"d", "e", "g", "c">>, <<"c", "e", "l", "s", "i", "u", "s">>, <<"U00B0", "c">>}],
       [canon |-> <<"f">>, forms |-> {<<"f">>, <<"d", "e", "g", "f">>, <<"f", "a", "h", "r", "e", "n", "h", "e", "i", "t">>, <<"U00B0", "f">>}],
       [canon |-> <<"p", "a">>, forms |-> {<<"p", "a">>, <<"p", "a", "s", "c", "a", "l">>}],
       [canon |-> <<"k", "p", "a">>, forms |-> {<<"k", "p", "a">>, <<"k", "i", "l", "o", "p", "a", "s", "c", "a", "l">>, <<"k", "i", "l", "o", "p", "a", "s", "c", "a", "l", "s">>}],
       [canon |-> <<"p", "s", "i">>, forms |-> {<<"p", "s", "i">>}],
       [canon |-> <<"v", "o", "l", "t">>, forms |-> {<<"v">>, <<"v", "o", "l", "t">>, <<"v", "o", "l", "t", "s">>}],
       [canon |-> <<"o", "h", "m">>, forms |-> {<<"o", "h", "m">>, <<"o", "h", "m", "s">>, <<"U03C9">>, <<"o", "m", "e", "g", "a">>}] >>

\* _normalize_unit_token
_normalize_unit_token(u_raw) ==
    LET base == Lower(Strip(u_raw))
        hits1 == {i \in 1..Len(UNIT_ALIASES) : base \in UNIT_ALIASES[i].forms}
        base2 == SubRuns(base, NonLowerAlnum, <<>>)
        hits2 == {i \in 1..Len(UNIT_ALIASES) :
                    base2 \in {SubRuns(f, NonLowerAlnum, <<>>) :
                                 f \in UNIT_ALIASES[i].forms}}
        First(hits) == CHOOSE j \in hits : \A k \in hits : j <= k
    IN  IF base # <<>> /\ hits1 # {} THEN UNIT_ALIASES[First(hits1)].canon
        ELSE IF hits2 # {} THEN UNIT_ALIASES[First(hits2)].canon
        ELSE IF base2 # <<>> THEN base2 ELSE <<"n", "a">>

\* resolve_unit_and_value: [uri, value, external]
resolve_unit_and_value(unit_raw, value_in) ==
    LET canon == _normalize_unit_token(unit_raw)
    IN  CASE canon = <<"c">> ->
               [uri |-> Iri(NS_CCO, "ont00001606"), value |-> value_in, external |-> TRUE]
          [] canon = <<"f">> ->
               [uri |-> Iri(NS_CCO, "ont00001724"), value |-> value_in, external |-> TRUE]
          [] canon = <<"k", "p", "a">> ->
               [uri |-> Iri(NS_CCO, "ont00001559"), value |-> value_in * 1000,
                external |-> TRUE]
          [] canon = <<"p", "a">> ->
               [uri |-> Iri(NS_CCO, "ont00001559"), value |-> value_in, external |-> TRUE]
          [] canon = <<"p", "s", "i">> ->
               [uri |-> Iri(NS_CCO, "ont00001694"), value |-> value_in, external |-> TRUE]
          [] canon = <<"v", "o", "l", "t">> ->
               [uri |-> Iri(NS_CCO, "ont00001450"), value |-> value_in, external |-> TRUE]
          [] canon = <<"o", "h", "m">> ->
               [uri |-> IriText(NS_EX, <<"o", "h", "m">>), value |-> value_in, external |-> FALSE]
          [] OTHER ->
               [uri |-> IriText(NS_EX, _slug(unit_raw)), value |-> value_in,
                external |-> FALSE]

(***************************************************************************)
(* measure_rdflib.py: the module-level graph and the module-level row loop *)
(***************************************************************************)
article_for(s) ==
    IF s # <<>> /\ LowerChar(s[1]) \in {"a", "e", "i", "o", "u"} THEN <<"A", "n">> ELSE <<"A">>

\* has_english_definition
has_english_definition(g, term_iri) ==
    \E c \in Objects(g, term_iri, RDFS_comment) :
        c.ns = "literal" /\ c.name = "@en" /\ Strip(c.key) # <<>>

\* ensure_definition: the triples it adds.  _defined_terms only ever holds
\* terms that were given a comment in the graph, so the graph test decides.
ensure_definition(g, term_iri, definition_text) ==
    LET text == IF Strip(definition_text) = <<>>
                THEN <<"D", "e", "f", "i", "n", "i", "t", "i", "o", "n", " ", "n", "o", "t", " ", "p", "r", "o", "v", "i", "d", "e", "d", ".">> ELSE definition_text
    IN  IF has_english_definition(g, term_iri) THEN {}
        ELSE {<<term_iri, RDFS_comment, LitEn(Strip(text))>>}

\* the triples added before any row is read: the ontology header and labels,
\* the EXPLICIT_* declarations, CLASS_DEFS and OBJECT_PROPERTY_DEFS (their
\* definition texts abbreviated to the term they define) and the inverses
HeaderTriples ==
    LET onto_uri == Iri("http://example.org/", "ontology")
        Label(t, text) == <<t, RDFS_label, LitEn(text)>>
        classes == {Iri(NS_CCO, "ont00000441"), Iri(NS_CCO, "ont00000995"),
                    Iri(NS_OBO, "BFO_0000020"), Iri(NS_CCO, "ont00001163"),
                    Iri(NS_CCO, "ont00000120"), Iri(NS_OBO, "BFO_0000040"),
                    Iri(NS_OBO, "BFO_0000031")}
        objprops == {Iri(NS_OBO, "BFO_0000197"), Iri(NS_OBO, "BFO_0000196"),
                     Iri(NS_CCO, "ont00001966"), Iri(NS_CCO, "ont00001904"),
                     Iri(NS_CCO, "ont00001863"), Iri(NS_CCO, "ont00001961")}
        dataprops == {Iri(NS_CCO, "ont00001769"), Iri(NS_EXPROP, "hasTimestamp")}
        defined == {Iri(NS_OBO, "BFO_0000020"), Iri(NS_OBO, "BFO_0000031"),
                    Iri(NS_OBO, "BFO_0000040"), Iri(NS_OBO, "BFO_0000196"),
                    Iri(NS_CCO, "ont00001904"), Iri(NS_CCO, "ont00001966"),
                    Iri(NS_CCO, "ont00001961")}
        Inverse(p, q) == {<<p, Iri(NS_OWL, "inverseOf"), q>>,
                          <<q, Iri(NS_OWL, "inverseOf"), p>>}
    IN  {<<onto_uri, RDF_type, Iri(NS_OWL, "Ontology")>>,
         Label(onto_uri, <<"c", "c", "o", " ", "c", "o", "n", "f", "o", "r", "m", "a", "n", "t", " ", "m", "e", "a", "s", "u", "r", "e", "m", "e", "n", "t", "s">>),
         Label(Iri(NS_CCO, "ont00000995"), <<"A", "r", "t", "i", "f", "a", "c", "t">>),
         Label(Iri(NS_OBO, "BFO_0000197"), <<"i", "n", "h", "e", "r", "e", "s", " ", "i", "n">>),
         Label(Iri(NS_CCO, "ont00001863"), <<"u", "s", "e", "s", " ", "m", "e", "a", "s", "u", "r", "e", "m", "e", "n", "t", " ", "u", "n", "i", "t">>),
         Label(Iri(NS_CCO, "ont00000120"), <<"M", "e", "a", "s", "u", "r", "e", "m", "e", "n", "t", " ", "U", "n", "i", "t">>),
         Label(Iri(NS_CCO, "ont00001904"), <<"i", "s", " ", "m", "e", "a", "s", "u", "r", "e", "d", " ", "b", "y">>),
         Label(Iri(NS_CCO, "ont00001163"),
               <<"M", "e", "a", "s", "u", "r", "e", "m", "e", "n", "t", " ", "I", "n", "f", "o", "r", "m", "a", "t", "i", "o", "n", " ", "C", "o", "n", "t", "e", "n", "t", " ", "E", "n", "t", "i", "t", "y">>),
         Label(Iri(NS_CCO, "ont00001606"),
               <<"D", "e", "g", "r", "e", "e", " ", "C", "e", "l", "s", "i", "u", "s", " ", "M", "e", "a", "s", "u", "r", "e", "m", "e", "n", "t", " ", "U", "n", "i", "t">>),
         Label(Iri(NS_CCO, "ont00001724"),
               <<"D", "e", "g", "r", "e", "e", " ", "F", "a", "h", "r", "e", "n", "h", "e", "i", "t", " ", "M", "e", "a", "s", "u", "r", "e", "m", "e", "n", "t", " ", "U", "n", "i", "t">>),
         Label(Iri(NS_CCO, "ont00001450"),
               <<"V", "o", "l", "t", " ", "M", "e", "a", "s", "u", "r", "e", "m", "e", "n", "t", " ", "U", "n", "i", "t">>),
         Label(Iri(NS_CCO, "ont00001559"),
               <<"P", "a", "s", "c", "a", "l", " ", "M", "e", "a", "s", "u", "r", "e", "m", "e", "n", "t", " ", "U", "n", "i", "t">>),
         Label(Iri(NS_CCO, "ont00001694"),
               <<"P", "o", "u", "n", "d", "s", " ", "P", "e", "r", " ", "S", "q", "u", "a", "r", "e", " ", "I", "n", "c", "h", " ", "M", "e", "a", "s", "u", "r", "e", "m", "e", "n", "t", " ", "U", "n", "i", "t">>),
         Label(Iri(NS_CCO, "ont00001769"), <<"h", "a", "s", " ", "d", "e", "c", "i", "m", "a", "l", " ", "v", "a", "l", "u", "e">>),
         Label(Iri(NS_CCO, "BFO_0000196"), <<"b", "e", "a", "r", "e", "r", " ", "o", "f">>),
         Label(Iri(NS_CCO, "ont00001961"), <<"i", "s", " ", "m", "e", "a", "s", "u", "r", "e", "m", "e", "n", "t", " ", "u", "n", "i", "t", " ", "o", "f">>),
         Label(Iri(NS_CCO, "ont00001966"), <<"i", "s", " ", "a", " ", "m", "e", "a", "s", "u", "r", "e", "m", "e", "n", "t", " ", "o", "f">>),
         Label(Iri(NS_EXPROP, "hasTimestamp"), <<"h", "a", "s", " ", "t", "i", "m", "e", "s", "t", "a", "m", "p">>)}
        \cup {<<k, RDF_type, OWL_Class>> : k \in classes}
        \cup {<<p, RDF_type, Iri(NS_OWL, "ObjectProperty")>> : p \in objprops}
        \cup {<<p, RDF_type, Iri(NS_OWL, "DatatypeProperty")>> : p \in dataprops}
        \cup {<<t, RDFS_comment, LitEn(<<"d", "e", "f", "i", "n", "i", "t", "i", "o", "n">>)>> : t \in defined}
        \cup Inverse(Iri(NS_OBO, "BFO_0000196"), Iri(NS_OBO, "BFO_0000197"))
        \cup Inverse(Iri(NS_CCO, "ont00001904"), Iri(NS_CCO, "ont00001966"))
        \cup Inverse(Iri(NS_CCO, "ont00001961"), Iri(NS_CCO, "ont00001863"))

\* one iteration of the module-level loop `for _, row in df.iterrows()`: the
\* graph after the row.  reading_cache and quality_class_cache only memoise
\* IRIs that are functions of their keys.
RowLoopBody(g, row) ==
    LET artifact_id_raw == Strip(row.artifact_id)
        sdc_kind_raw == Strip(row.sdc_kind)
        unit_raw == Strip(row.unit_label)
        timestamp_raw == Strip(row.timestamp)
        artifact_label == ReplaceChar(artifact_id_raw, " ", "-")
        artifact_slug == _slug(artifact_label)
        kind == canonicalize_kind(sdc_kind_raw)
        canon_kind_label == kind[1]
        canon_kind_slug == kind[2]
        ts_slug == _slug(timestamp_raw)
        artifact_uri == IriText(NS_EX, artifact_slug)
        classed == canon_kind_label \in QUALITIES_FOR_CLASSING
        qual_class_uri == IF canon_kind_label = <<"T", "e", "m", "p", "e", "r", "a", "t", "u", "r", "e">>
                          THEN Iri(NS_CCO, "ont00000441")
                          ELSE IriText(NS_EXC, canon_kind_slug)
        qual_triples ==
            IF ~classed THEN {}
            ELSE IF canon_kind_label = <<"T", "e", "m", "p", "e", "r", "a", "t", "u", "r", "e">>
            THEN {<<qual_class_uri, RDF_type, OWL_Class>>,
                  <<qual_class_uri, RDFS_label, LitEn(<<"T", "e", "m", "p", "e", "r", "a", "t", "u", "r", "e">>)>>}
            ELSE {<<qual_class_uri, RDF_type, OWL_Class>>,
                  <<qual_class_uri, RDFS_subClassOf, Iri(NS_OBO, "BFO_0000020")>>,
                  <<qual_class_uri, RDFS_label, LitEn(canon_kind_label)>>}
                 \cup ensure_definition(g, qual_class_uri,
                        article_for(canon_kind_label) \o <<" ">> \o canon_kind_label
                        \o <<" ", "i", "s", " ", "a", " ", "q", "u", "a", "l", "i", "t", "y">>)
        reading_id == artifact_slug \o <<"_">> \o canon_kind_slug \o <<"_">> \o ts_slug
        reading_uri == IriText(NS_EX, reading_id)
        unit == resolve_unit_and_value(unit_raw, NumberOf(row.value))
        mice_uri == IriText(NS_EX, <<"M", "I", "C", "E", "_">> \o reading_id)
        at == artifact_label \o <<"_">> \o canon_kind_label \o <<" ", "@", " ">> \o timestamp_raw
    IN  IF artifact_id_raw = <<>> \/ sdc_kind_raw = <<>> \/ unit_raw = <<>>
           \/ timestamp_raw = <<>> \/ ~IsNumericText(row.value)
        THEN g
        ELSE g \cup qual_triples \cup
             {<<artifact_uri, RDF_type, Iri(NS_CCO, "ont00000995")>>,
              <<artifact_uri, RDFS_label, LitEn(artifact_label)>>,
              <<reading_uri, RDF_type, Iri(NS_OBO, "BFO_0000020")>>,
              <<reading_uri, RDFS_label, LitEn(at)>>,
              <<reading_uri, Iri(NS_OBO, "BFO_0000197"), artifact_uri>>,
              <<unit.uri, RDF_type, Iri(NS_CCO, "ont00000120")>>,
              <<mice_uri, RDF_type, Iri(NS_CCO, "ont00001163")>>,
              <<mice_uri, RDFS_label, LitEn(<<"M", "I", "C", "E", " ", "f", "o", "r", " ">> \o at)>>,
              <<mice_uri, Iri(NS_CCO, "ont00001769"), LitDecimal(unit.value)>>,
              <<mice_uri, Iri(NS_CCO, "ont00001863"), unit.uri>>,
              <<reading_uri, Iri(NS_CCO, "ont00001863"), unit.uri>>,
              <<mice_uri, Iri(NS_CCO, "ont00001966"), reading_uri>>,
              <<reading_uri, Iri(NS_CCO, "ont00001904"), mice_uri>>,
              <<mice_uri, Iri(NS_EXPROP, "hasTimestamp"), LitDateTime(timestamp_raw)>>}
             \cup (IF classed THEN {<<reading_uri, RDF_type, qual_class_uri>>} ELSE {})
             \cup (IF unit.external THEN {}
                   ELSE {<<unit.uri, RDFS_label, LitEn(unit_raw)>>})

\* the whole loop over the rows of the table
RECURSIVE RowLoop(_, _)
RowLoop(g, rows) ==
    IF rows = <<>> THEN g ELSE RowLoop(RowLoopBody(g, Head(rows)), Tail(rows))

\* the subclass axioms added after the loop
SubclassTriples ==
    {<<Iri(NS_CCO, "ont00000441"), RDFS_subClassOf, Iri(NS_OBO, "BFO_0000020")>>,
     <<Iri(NS_CCO, "ont00000995"), RDFS_subClassOf, Iri(NS_OBO, "BFO_0000040")>>,
     <<Iri(NS_CCO, "ont00001163"), RDFS_subClassOf, Iri(NS_OBO, "BFO_0000031")>>,
     <<Iri(NS_CCO, "ont00000120"), RDFS_subClassOf, Iri(NS_OBO, "BFO_0000031")>>}

(***************************************************************************)
(* measure_rdflib.py: generate_uris, generate_triples, main                *)
(***************************************************************************)
\* generate_uris is called by generate_triples and defined nowhere in the
\* file.  It is modelled from the data model: identifiers are derived from a
\* canonical string of the relevant fields (joined by "|", which no field
\* holds), the Artifact from artifact_id, the Condition node from
\* (artifact, kind), the Unit node from the unit token, the Value node from
\* the value, the Measurement record from (condition, timestamp, value).
generate_uris(row) ==
    LET sdc_key == row.artifact_id \o <<"|">> \o row.sdc_kind
    IN  [artifact_uri |-> IriText(NS_EX, <<"a", "r", "t", "i", "f", "a", "c", "t", "|">> \o row.artifact_id),
         sdc_uri |-> IriText(NS_EX, <<"s", "d", "c", "|">> \o sdc_key),
         mu_uri |-> IriText(NS_EX, <<"m", "u", "|">> \o row.unit_label),
         mv_uri |-> IriText(NS_EX, <<"m", "v", "|">> \o Strip(row.value)),
         mice_uri |-> IriText(NS_EX, <<"m", "i", "c", "e", "|">> \o sdc_key \o <<"|">> \o row.timestamp
                                      \o <<"|">> \o Strip(row.value))]

\* one iteration of the loop of generate_triples: [g, seen] after the row;
\* seen_static_entities holds str(uri), here the IRI itself
GenerateRow(st, row) ==
    LET u == generate_uris(row)
        artifact_key == u.artifact_uri
        sdc_key == u.sdc_uri
        mu_key == u.mu_uri
        mv_key == u.mv_uri
        newArtifact == artifact_key \notin st.seen
        seen1 == IF newArtifact THEN st.seen \cup {artifact_key, sdc_key} ELSE st.seen
        newUnit == mu_key \notin seen1
        seen2 == IF newUnit THEN seen1 \cup {mu_key} ELSE seen1
        newValue == mv_key \notin seen2
        seen3 == IF newValue THEN seen2 \cup {mv_key} ELSE seen2
    IN  [g |-> st.g
               \cup (IF newArtifact
                     THEN {<<u.artifact_uri, RDF_type, IRI_ART>>,
                           <<u.artifact_uri, IRI_BEARER_OF, u.sdc_uri>>,
                           <<u.sdc_uri, RDF_type, IRI_SDC>>}
                     ELSE {})
               \cup (IF newUnit THEN {<<u.mu_uri, RDF_type, IRI_MU>>} ELSE {})
               \cup (IF newValue
                     THEN {<<u.mv_uri, RDF_type, IRI_HAS_VALUE>>,
                           <<u.mv_uri, IRI_HAS_VALUE, LitDecimal(NumberOf(row.value))>>}
                     ELSE {})
               \cup {<<u.mice_uri, RDF_type, IRI_MICE>>,
                     <<u.mice_uri, IRI_IS_MEASURE_OF, u.sdc_uri>>,
                     <<u.mice_uri, IRI_USES_MU, u.mu_uri>>,
                     <<u.mice_uri, IRI_HAS_VALUE, u.mv_uri>>,
                     <<u.mice_uri, IRI_HAS_TIMESTAMP, LitDateTime(row.timestamp)>>},
         seen |-> seen3]

RECURSIVE GenerateLoop(_, _)
GenerateLoop(st, rows) ==
    IF rows = <<>> THEN st ELSE GenerateLoop(GenerateRow(st, Head(rows)), Tail(rows))

\* generate_triples(df, graph): the graph it returns
generate_triples(df, g) == GenerateLoop([g |-> g, seen |-> {}], df).g

\* df['value'] = pd.to_numeric(df['value'], errors='coerce');
\* df.dropna(subset=['value'])
DropNonNumeric(rows) == SelectSeq(rows, LAMBDA r : IsNumericText(r.value))

(***************************************************************************)
(* Graph Builder: the files and the two entry points                       *)
(***************************************************************************)
AbsentCsv == [exists |-> FALSE, rows |-> <<>>]
AbsentTtl == [kind |-> "absent", triples |-> {}]
\* graph.serialize(destination=OUT_FILE, format="turtle"): the document holds
\* the triples of the graph
Serialize(g) == [kind |-> "turtle", triples |-> g]
\* a placeholder that is no Turtle document
PlaceholderNoTurtle == [kind |-> "malformed", triples |-> {}]
\* the placeholder main writes: one @prefix line, no triple
PlaceholderTtl == [kind |-> "turtle", triples |-> {}]

\* the rows the canonical tables are drawn from
BArtifacts == {<<"B", "-", "7">>, <<"P", "1">>}
BKinds == {<<"t", "e", "m", "p", "e", "r", "a", "t", "u", "r", "e">>, <<"p", "r", "e", "s", "s", "u", "r", "e">>}
BUnits == {<<"C">>, <<"k", "P", "a">>}
BValues == {<<"1">>, <<"2">>}
BTimes == {<<"T", "1", "Z">>, <<"T", "2", "Z">>}
\* a cell of the value column that is no number
NotANumber == <<"x">>
BRows == [artifact_id : BArtifacts, sdc_kind : BKinds, unit_label : BUnits,
          value : BValues, timestamp : BTimes]
         \cup [artifact_id : BArtifacts, sdc_kind : BKinds, unit_label : {<<"C">>},
               value : {NotANumber}, timestamp : {<<"T", "1", "Z">>}]

\* the order the Normalizer leaves its rows in: (artifact_id, timestamp)
KeyLeq(r1, r2) ==
    \/ StrLess(r1.artifact_id, r2.artifact_id)
    \/ /\ r1.artifact_id = r2.artifact_id
       /\ ~StrLess(r2.timestamp, r1.timestamp)

IsSortedTable(rows) == \A i \in 1..(Len(rows) - 1) : KeyLeq(rows[i], rows[i + 1])

RECURSIVE TablesUpTo(_)
TablesUpTo(n) ==
    IF n = 0 THEN {<<>>}
    ELSE LET shorter == TablesUpTo(n - 1)
         IN  shorter \cup {t \in {Append(s, r) : s \in shorter, r \in BRows} :
                             IsSortedTable(t)}

CsvFiles == {AbsentCsv} \cup {[exists |-> TRUE, rows |-> t] : t \in TablesUpTo(MaxRows)}

BuilderInit ==
    /\ csv \in CsvFiles
    /\ graph = HeaderTriples
    /\ ttl = AbsentTtl
    /\ bcalls = <<>>

BuilderIdle ==
    /\ csv = AbsentCsv
    /\ graph = {}
    /\ bcalls = <<>>

\* the module-level script after the graph is set up: pd.read_csv(CSV_PATH),
\* the row loop, the subclass axioms and graph.serialize.  It runs once, when
\* the module is loaded, before any call of main.
ModuleRowLoop ==
    /\ bcalls = <<>>
    /\ IF csv.exists
       THEN /\ graph' = RowLoop(graph, csv.rows) \cup SubclassTriples
            /\ ttl' = Serialize(graph')
            /\ bcalls' = Append(bcalls, "module")
       ELSE \* read_csv raises FileNotFoundError: the process ends
            /\ bcalls' = Append(bcalls, "module:FileNotFoundError")
            /\ UNCHANGED <<graph, ttl>>
    /\ UNCHANGED <<csv, qvars, nvars, uvars, svars>>

\* main()
Main ==
    /\ Len(bcalls) < MaxCalls
    /\ "module:FileNotFoundError" \notin {bcalls[i] : i \in 1..Len(bcalls)}
    /\ IF ~csv.exists
       THEN /\ ttl' = PlaceholderTtl
            /\ bcalls' = Append(bcalls, "main:placeholder")
            /\ UNCHANGED graph
       ELSE /\ graph' = generate_triples(DropNonNumeric(csv.rows), graph)
            /\ ttl' = Serialize(graph')
            /\ bcalls' = Append(bcalls, "main")
    /\ UNCHANGED <<csv, qvars, nvars, uvars, svars>>

(***************************************************************************)
(* Validator: qc_fix.py and run_sparql_qc.py                               *)
(***************************************************************************)
\* the subjects typed with a class: ?x a <cls>
Typed(g, cls) == Subjects(g, RDF_type, cls)

\* 1) q_types: the four COUNT(DISTINCT ...) of the OPTIONAL patterns
TypeCounts(g) ==
    [A |-> Cardinality(Typed(g, IRI_ART)),
     S |-> Cardinality(Typed(g, IRI_SDC)),
     M |-> Cardinality(Typed(g, IRI_MICE)),
     U |-> Cardinality(Typed(g, IRI_MU))]

\* all(v > 0 for v in (A, S, M, U))
TypesPresent(g) ==
    LET c == TypeCounts(g) IN c.A > 0 /\ c.S > 0 /\ c.M > 0 /\ c.U > 0

\* 2) q_pattern_strict: the ASK query
PatternFound(g) ==
    \E a \in Typed(g, IRI_ART), m \in Typed(g, IRI_MICE) :
        \E sdc \in Objects(g, a, IRI_BEARER_OF) \cap Typed(g, IRI_SDC) :
            /\ sdc \in Objects(g, m, IRI_IS_MEASURE_OF)
            /\ Objects(g, m, IRI_USES_MU) \cap Typed(g, IRI_MU) # {}

\* 3) q_missing_measure_of and q_missing_unit: the FILTER NOT EXISTS branches
MissingMeasureOf(g) ==
    {m \in Typed(g, IRI_MICE) :
        Objects(g, m, IRI_IS_MEASURE_OF) \cap Typed(g, IRI_SDC) = {}}

MissingUnit(g) ==
    {m \in Typed(g, IRI_MICE) :
        Objects(g, m, IRI_USES_MU) \cap Typed(g, IRI_MU) = {}}

\* a count that adds the sizes of the two result sets
NBadSummed(g) == Cardinality(MissingMeasureOf(g)) + Cardinality(MissingUnit(g))

\* qc_fix.py: bad_mice is the union of the two result sets, n_bad its size
NBadQcFix(g) == Cardinality(MissingMeasureOf(g) \cup MissingUnit(g))

\* a count over the first branch of the UNION alone
NBadMeasureOfOnly(g) == Cardinality(MissingMeasureOf(g))

\* run_sparql_qc.py: COUNT(DISTINCT ?m) over the UNION of the two branches
NBadSparql(g) ==
    Cardinality({m \in Typed(g, IRI_MICE) :
                    m \in MissingMeasureOf(g) \/ m \in MissingUnit(g)})

NBad(script, g) == IF script = "qc_fix" THEN NBadQcFix(g) ELSE NBadSparql(g)

Scripts == {"qc_fix", "run_sparql_qc"}

\* exit statuses: sys.exit(2) and sys.exit(1) of the loading block, sys.exit(0)
\* at the end; an assert outside the try block is not caught, and Python
\* ends a process on an uncaught exception with status 1
EXIT_MISSING == 2
EXIT_LOAD_ERROR == 1
EXIT_UNCAUGHT == 1
EXIT_OK == 0

\* the loading block: assert TTL.exists(); g.parse(TTL); print
QcLoad ==
    /\ qpc = "load"
    /\ IF ttl.kind = "absent"
       THEN /\ qout' = Append(qout, "not found")
            /\ qexit' = EXIT_MISSING
            /\ qpc' = "exited"
            /\ UNCHANGED qg
       ELSE IF ttl.kind # "turtle"
       THEN /\ qout' = Append(qout, "Error loading TTL file")
            /\ qexit' = EXIT_LOAD_ERROR
            /\ qpc' = "exited"
            /\ UNCHANGED qg
       ELSE /\ qg' = ttl.triples
            /\ qout' = Append(qout, "[ttl] triples")
            /\ qpc' = "types"
            /\ UNCHANGED qexit
    /\ UNCHANGED <<qscript, bvars, nvars, uvars, svars>>

\* 1) the type check
QcTypes ==
    /\ qpc = "types"
    /\ IF TypesPresent(qg)
       THEN /\ qout' = Append(qout, "Types present")
            /\ qpc' = "pattern"
            /\ UNCHANGED qexit
       ELSE /\ qout' = Append(qout, "AssertionError: Missing required typed nodes")
            /\ qexit' = EXIT_UNCAUGHT
            /\ qpc' = "exited"
    /\ UNCHANGED <<qscript, qg, bvars, nvars, uvars, svars>>

\* a pattern check that reports its failure and goes on to the third check
QcPatternContinues ==
    /\ qpc = "pattern"
    /\ qout' = Append(qout, IF PatternFound(qg)
                            THEN "Complete pattern found"
                            ELSE "AssertionError: No complete pattern found")
    /\ qpc' = "all_mice"
    /\ UNCHANGED <<qexit, qscript, qg, bvars, nvars, uvars, svars>>

\* 2) the pattern check
QcPattern ==
    /\ qpc = "pattern"
    /\ IF PatternFound(qg)
       THEN /\ qout' = Append(qout, "Complete pattern found")
            /\ qpc' = "all_mice"
            /\ UNCHANGED qexit
       ELSE /\ qout' = Append(qout, "AssertionError: No complete pattern found")
            /\ qexit' = EXIT_UNCAUGHT
            /\ qpc' = "exited"
    /\ UNCHANGED <<qscript, qg, bvars, nvars, uvars, svars>>

\* a third check that reports the bad records and still leaves with 0
QcAllMiceReportOnly ==
    /\ qpc = "all_mice"
    /\ qout' = IF NBad(qscript, qg) = 0
               THEN qout \o <<"All MICE use exact IRIs", "RDF passes">>
               ELSE Append(qout, "AssertionError: Some MICE are missing required links")
    /\ qexit' = EXIT_OK
    /\ qpc' = "exited"
    /\ UNCHANGED <<qscript, qg, bvars, nvars, uvars, svars>>

\* 3) the check of every MICE, the closing message and sys.exit(0)
QcAllMice ==
    /\ qpc = "all_mice"
    /\ IF NBad(qscript, qg) = 0
       THEN /\ qout' = qout \o <<"All MICE use exact IRIs", "RDF passes">>
            /\ qexit' = EXIT_OK
       ELSE /\ qout' = Append(qout, "AssertionError: Some MICE are missing required links")
            /\ qexit' = EXIT_UNCAUGHT
    /\ qpc' = "exited"
    /\ UNCHANGED <<qscript, qg, bvars, nvars, uvars, svars>>

\* the exit status of a whole run of a script on a file
QcExit(script, file) ==
    IF file.kind = "absent" THEN EXIT_MISSING
    ELSE IF file.kind # "turtle" THEN EXIT_LOAD_ERROR
    ELSE IF ~TypesPresent(file.triples) THEN EXIT_UNCAUGHT
    ELSE IF ~PatternFound(file.triples) THEN EXIT_UNCAUGHT
    ELSE IF NBad(script, file.triples) # 0 THEN EXIT_UNCAUGHT
    ELSE EXIT_OK

\* the messages of a whole run of a script on a file, in the order printed
QcOutput(script, file) ==
    IF file.kind = "absent" THEN <<"not found">>
    ELSE IF file.kind # "turtle" THEN <<"Error loading TTL file">>
    ELSE <<"[ttl] triples">> \o
         (IF ~TypesPresent(file.triples)
          THEN <<"AssertionError: Missing required typed nodes">>
          ELSE <<"Types present">> \o
               (IF ~PatternFound(file.triples)
                THEN <<"AssertionError: No complete pattern found">>
                ELSE <<"Complete pattern found">> \o
                     (IF NBad(script, file.triples) # 0
                      THEN <<"AssertionError: Some MICE are missing required links">>
                      ELSE <<"All MICE use exact IRIs", "RDF passes">>)))

QcIdle ==
    /\ qscript = "none"
    /\ qpc = "off"
    /\ qg = {}
    /\ qexit = -1
    /\ qout = <<>>

(***************************************************************************)
(* The parts of the state a specification leaves aside                     *)
(***************************************************************************)
NormIdle ==
    /\ inA = [exists |-> FALSE, rows |-> <<>>]
    /\ inB = [exists |-> FALSE, doc |-> [parses |-> FALSE, obj |-> <<>>, lines |-> <<>>]]
    /\ inC = [exists |-> FALSE, rows |-> <<>>]
    /\ npc = "off"
    /\ dfs = <<>>
    /\ cleaned = [dtype |-> "int64", index |-> <<>>, rows |-> <<>>]
    /\ outFile = [exists |-> FALSE, rows |-> <<>>]

UnitIdle ==
    /\ utok = <<>>
    /\ uonce = <<>>
    /\ utwice = <<>>
    /\ upc = "off"

SlugIdle ==
    /\ aid1 = <<>>
    /\ aid2 = <<>>
    /\ auri1 = <<>>
    /\ auri2 = <<>>
    /\ spc = "off"

(***************************************************************************)
(* Spec: the Graph Builder on a canonical table                            *)
(***************************************************************************)
Init == BuilderInit /\ QcIdle /\ NormIdle /\ UnitIdle /\ SlugIdle

Next == ModuleRowLoop \/ Main

Spec == Init /\ [][Next]_vars

(***************************************************************************)
(* Properties of the Graph Builder                                         *)
(***************************************************************************)
Last(s) == s[Len(s)]

\* the rows main hands to generate_triples
BuilderRows == DropNonNumeric(csv.rows)

\* main ran last and built the graph from the table
MainBuilt == bcalls # <<>> /\ Last(bcalls) = "main"

\* the measurement pattern of one row, with the identifiers of that row
PatternInstance(g, row) ==
    LET u == generate_uris(row)
    IN  /\ <<u.artifact_uri, RDF_type, IRI_ART>> \in g
        /\ <<u.artifact_uri, IRI_BEARER_OF, u.sdc_uri>> \in g
        /\ <<u.sdc_uri, RDF_type, IRI_SDC>> \in g
        /\ <<u.mu_uri, RDF_type, IRI_MU>> \in g
        /\ <<u.mice_uri, RDF_type, IRI_MICE>> \in g
        /\ <<u.mice_uri, IRI_IS_MEASURE_OF, u.sdc_uri>> \in g
        /\ <<u.mice_uri, IRI_USES_MU, u.mu_uri>> \in g

\* C1: once main has processed a table, the graph holds the complete
\* measurement pattern of every row handed to generate_triples: the row's
\* Artifact typed and bearer_of its Condition node, the Condition node and
\* the Unit node typed, the Measurement record typed and linked to both.
C1_PatternPerRow ==
    MainBuilt => \A i \in 1..Len(BuilderRows) : PatternInstance(graph, BuilderRows[i])

\* C2: for every canonical table with at least one row, the Turtle document
\* main wrote passes the Validator: both scripts end with status 0.
C2_EndToEndPasses ==
    (MainBuilt /\ csv.rows # <<>> /\ BuilderRows = csv.rows)
        => \A script \in Scripts : QcExit(script, ttl) = EXIT_OK

\* the Measurement records of a graph, of the row loop (NS_cco classes and
\* properties) and of generate_triples (the exact IRIs), and what they link to
MeasurementRecords(g) == Typed(g, IRI_MICE) \cup Typed(g, Iri(NS_CCO, "ont00001163"))
ValuesOf(g, m) ==
    Objects(g, m, IRI_HAS_VALUE) \cup Objects(g, m, Iri(NS_CCO, "ont00001769"))
TimestampsOf(g, m) ==
    Objects(g, m, IRI_HAS_TIMESTAMP) \cup Objects(g, m, Iri(NS_EXPROP, "hasTimestamp"))
ConditionsOf(g, m) ==
    Objects(g, m, IRI_IS_MEASURE_OF) \cup Objects(g, m, Iri(NS_CCO, "ont00001966"))
UnitsOf(g, m) ==
    Objects(g, m, IRI_USES_MU) \cup Objects(g, m, Iri(NS_CCO, "ont00001863"))

\* C7: every Measurement record of the graph carries exactly one value and
\* one timestamp and links to exactly one Condition node and one Unit node:
\* rows that differ only in value or only in unit are not merged into one.
C7_OneRecordPerRow ==
    \A m \in MeasurementRecords(graph) :
        /\ Cardinality(ValuesOf(graph, m)) = 1
        /\ Cardinality(TimestampsOf(graph, m)) = 1
        /\ Cardinality(ConditionsOf(graph, m)) = 1
        /\ Cardinality(UnitsOf(graph, m)) = 1

(***************************************************************************)
(* SpecQC: a Validator script run on a Turtle file                         *)
(***************************************************************************)
\* the nodes and triples the validated graphs are drawn from
Qa1 == IriText(NS_EX, <<"a", "1">>)
Qs1 == IriText(NS_EX, <<"s", "1">>)
Qs2 == IriText(NS_EX, <<"s", "2">>)
Qm1 == IriText(NS_EX, <<"m", "1">>)
Qm2 == IriText(NS_EX, <<"m", "2">>)
Qu1 == IriText(NS_EX, <<"u", "1">>)
Qu2 == IriText(NS_EX, <<"u", "2">>)

QcTriples ==
    {<<Qa1, RDF_type, IRI_ART>>, <<Qa1, IRI_BEARER_OF, Qs1>>,
     <<Qs1, RDF_type, IRI_SDC>>, <<Qs2, RDF_type, IRI_SDC>>,
     <<Qu1, RDF_type, IRI_MU>>,
     <<Qm1, RDF_type, IRI_MICE>>, <<Qm1, IRI_IS_MEASURE_OF, Qs1>>,
     <<Qm1, IRI_USES_MU, Qu1>>,
     <<Qm2, RDF_type, IRI_MICE>>, <<Qm2, IRI_IS_MEASURE_OF, Qs2>>,
     <<Qm2, IRI_USES_MU, Qu1>>, <<Qm2, IRI_USES_MU, Qu2>>}

\* a file that is no Turtle: g.parse raises
MalformedTtl == [kind |-> "malformed", triples |-> {}]

TtlFiles == {AbsentTtl, MalformedTtl} \cup {Serialize(g) : g \in SUBSET QcTriples}

InitQC ==
    /\ BuilderIdle /\ ttl \in TtlFiles
    /\ qscript \in Scripts
    /\ qpc = "load"
    /\ qg = {}
    /\ qexit = -1
    /\ qout = <<>>
    /\ NormIdle /\ UnitIdle /\ SlugIdle

NextQC == QcLoad \/ QcTypes \/ QcPattern \/ QcAllMice

SpecQC == InitQC /\ [][NextQC]_vars

\* the three structural properties, stated on the triples of a graph
HasTyped(g, cls) == \E t \in g : t[2] = RDF_type /\ t[3] = cls

HasFullChain(g) ==
    \E ta \in g, tm \in g :
        /\ ta[2] = IRI_BEARER_OF /\ tm[2] = IRI_IS_MEASURE_OF /\ ta[3] = tm[3]
        /\ <<ta[1], RDF_type, IRI_ART>> \in g
        /\ <<ta[3], RDF_type, IRI_SDC>> \in g
        /\ <<tm[1], RDF_type, IRI_MICE>> \in g
        /\ \E tu \in g : /\ tu[1] = tm[1] /\ tu[2] = IRI_USES_MU
                         /\ <<tu[3], RDF_type, IRI_MU>> \in g

RecordComplete(g, m) ==
    /\ \E t \in g : t[1] = m /\ t[2] = IRI_IS_MEASURE_OF
                    /\ <<t[3], RDF_type, IRI_SDC>> \in g
    /\ \E t \in g : t[1] = m /\ t[2] = IRI_USES_MU
                    /\ <<t[3], RDF_type, IRI_MU>> \in g

AllChecksPass(g) ==
    /\ \A cls \in {IRI_ART, IRI_SDC, IRI_MICE, IRI_MU} : HasTyped(g, cls)
    /\ HasFullChain(g)
    /\ \A t \in g : (t[2] = RDF_type /\ t[3] = IRI_MICE) => RecordComplete(g, t[1])

QcExited == qpc = "exited"

\* C3: a Validator run ends with status 0 if the Turtle file exists, parses
\* and passes the type-presence, pattern-existence and completeness checks,
\* and with a non-zero status on every other path.
C3_ZeroOnlyIfAllPass ==
    QcExited => /\ qexit >= 0
                /\ qexit = 0 <=> (ttl.kind = "turtle" /\ AllChecksPass(ttl.triples))

\* a run that ended with status 0 after printing the closing message
C3_Witness == QcExited /\ qexit = 0 /\ Last(qout) = "RDF passes"

\* the failure class a finished run ended in, from its last message
FailureClass ==
    CASE Last(qout) = "not found" -> "file missing"
      [] Last(qout) = "Error loading TTL file" -> "unexpected error"
      [] Last(qout) \in {"AssertionError: Missing required typed nodes",
                         "AssertionError: No complete pattern found",
                         "AssertionError: Some MICE are missing required links"}
            -> "assertion failed"
      [] OTHER -> "none"

\* C4: the three failure classes end the process with three different
\* non-zero statuses: a failed assertion never ends with the status of a
\* missing file or of a load error, and a load error never with that of a
\* missing file.
C4_DistinctExitCodes ==
    QcExited =>
        /\ FailureClass = "file missing" => qexit = EXIT_MISSING /\ qexit # 0
        /\ FailureClass = "unexpected error" => qexit \notin {0, EXIT_MISSING}
        /\ FailureClass = "assertion failed" =>
                qexit \notin {0, EXIT_MISSING, EXIT_LOAD_ERROR}

(***************************************************************************)
(* SpecSlug: the Artifact identifier of the row loop, for two artifact ids *)
(***************************************************************************)
\* artifact_id_raw = str(row['artifact_id']).strip();
\* artifact_label = artifact_id_raw.replace(" ", "-");
\* artifact_slug = _slug(artifact_label); artifact_uri = URIRef(ex + artifact_slug)
ArtifactUri(artifact_id) ==
    IriText(NS_EX, _slug(ReplaceChar(Strip(artifact_id), " ", "-")))

IdAlphabet == {"B", "7", "_", " ", "-"}

\* the artifact ids of a canonical table: trimmed, with a letter or digit
ArtifactIds ==
    {t \in TextsUpTo(IdAlphabet, MaxIdLen) :
        /\ Strip(t) = t
        /\ \E i \in 1..Len(t) : t[i] \in WordChars}

InitSlug ==
    /\ aid1 \in ArtifactIds
    /\ aid2 \in ArtifactIds
    /\ auri1 = <<>>
    /\ auri2 = <<>>
    /\ spc = "ids"
    /\ BuilderIdle /\ ttl = AbsentTtl /\ QcIdle /\ NormIdle /\ UnitIdle

GenerateIdentifiers ==
    /\ spc = "ids"
    /\ auri1' = ArtifactUri(aid1)
    /\ auri2' = ArtifactUri(aid2)
    /\ spc' = "done"
    /\ UNCHANGED <<aid1, aid2, bvars, qvars, nvars, uvars>>

NextSlug == GenerateIdentifiers

SpecSlug == InitSlug /\ [][NextSlug]_vars

\* C8: the same artifact_id always yields the same Artifact identifier, and
\* two different artifact_id values yield different Artifact identifiers.
C8_IdentifiersSeparate ==
    spc = "done" => /\ aid1 = aid2 => auri1 = auri2
                    /\ aid1 # aid2 => auri1 # auri2

(***************************************************************************)
(* normalize_readings.py: the unit alias table                             *)
(***************************************************************************)
\* an alias table in which "v" leads to the alias "volt", not to "V"
UnitMapChainedAlias ==
    {<<<<"c", "e", "l", "s", "i", "u", "s">>, <<"C">>>>, <<<<"f">>, <<"F">>>>, <<<<"k", "p", "a">>, <<"k", "P", "a">>>>,
     <<<<"v">>, <<"v", "o", "l", "t">>>>, <<<<"v", "o", "l", "t">>, <<"V">>>>, <<<<"o", "h", "m">>, <<"U03A9">>>>,
     <<<<"m">>, <<"m">>>>, <<<<"p", "s", "i">>, <<"p", "s", "i">>>>}

\* UNIT_MAP: <<key, value>> for every entry of the dict
UNIT_MAP ==
    {<<<<"c", "e", "l", "s", "i", "u", "s">>, <<"C">>>>, <<<<"U00B0", "c">>, <<"C">>>>, <<<<"C">>, <<"C">>>>,
     <<<<"k", "i", "l", "o", "g", "r", "a", "m">>, <<"k", "g">>>>, <<<<"K", "G">>, <<"k", "g">>>>,
     <<<<"m", "e", "t", "e", "r">>, <<"m">>>>, <<<<"M">>, <<"m">>>>, <<<<"m">>, <<"m">>>>,
     <<<<"f", "a", "h", "r", "e", "n", "h", "e", "i", "t">>, <<"F">>>>, <<<<"f">>, <<"F">>>>, <<<<"U00B0", "f">>, <<"F">>>>,
     <<<<"k", "i", "l", "o", "p", "a", "s", "c", "a", "l">>, <<"k", "P", "a">>>>, <<<<"K", "P", "A">>, <<"k", "P", "a">>>>, <<<<"k", "p", "a">>, <<"k", "P", "a">>>>,
     <<<<"k", "P", "a">>, <<"k", "P", "a">>>>,
     <<<<"v", "o", "l", "t", "a", "g", "e">>, <<"V">>>>, <<<<"v">>, <<"V">>>>, <<<<"V">>, <<"V">>>>,
     <<<<"o", "h", "m">>, <<"U03A9">>>>, <<<<"o", "m", "e", "g", "a">>, <<"U03A9">>>>, <<<<"U03A9">>, <<"U03A9">>>>,
     <<<<"v", "o", "l", "t">>, <<"V">>>>, <<<<"p", "s", "i">>, <<"p", "s", "i">>>>}

UnitMapKeys == {e[1] : e \in UNIT_MAP}
UnitMapValues == {e[2] : e \in UNIT_MAP}

\* df["unit_label"].astype(str).str.lower().map(UNIT_MAP).fillna(df["unit_label"])
\* for one cell of the trimmed column: the lower-cased text is looked up,
\* a miss keeps the cell as it was
MapUnitLabel(unit_label) ==
    LET k == Lower(unit_label)
    IN  IF k \in UnitMapKeys
        THEN (CHOOSE e \in UNIT_MAP : e[1] = k)[2]
        ELSE unit_label

(***************************************************************************)
(* SpecUnit: the unit alias lookup applied to a token, and again to its    *)
(* result                                                                  *)
(***************************************************************************)
UnitAlphabet == {"c", "C", "k", "G", "v", "M", "U03A9", "U00B0"}

\* the cells of the trimmed unit_label column that are tried
UnitTokens ==
    UnitMapKeys \cup UnitMapValues
    \cup {<<"c">>, <<"C", "e", "l", "s", "i", "u", "s">>, <<"C", "E", "L", "S", "I", "U", "S">>, <<"F">>, <<"K", "p", "a">>, <<"k", "g">>, <<"O", "h", "m">>, <<"O", "M", "E", "G", "A">>,
          <<"U03C9">>, <<"P", "S", "I">>, <<"V", "o", "l", "t">>, <<"n", "a", "n">>, <<"N", "o", "n", "e">>, <<"d", "e", "g", "C">>, <<"b", "a", "r">>}
    \cup (TextsUpTo(UnitAlphabet, MaxTokLen) \ {<<>>})

InitUnit ==
    /\ utok \in UnitTokens
    /\ uonce = <<>>
    /\ utwice = <<>>
    /\ upc = "raw"
    /\ BuilderIdle /\ ttl = AbsentTtl /\ QcIdle /\ NormIdle /\ SlugIdle

NormalizeOnce ==
    /\ upc = "raw"
    /\ uonce' = MapUnitLabel(utok)
    /\ upc' = "once"
    /\ UNCHANGED <<utok, utwice, bvars, qvars, nvars, svars>>

NormalizeAgain ==
    /\ upc = "once"
    /\ utwice' = MapUnitLabel(uonce)
    /\ upc' = "twice"
    /\ UNCHANGED <<utok, uonce, bvars, qvars, nvars, svars>>

NextUnit == NormalizeOnce \/ NormalizeAgain

SpecUnit == InitUnit /\ [][NextUnit]_vars

\* the aliases the alias table is said to hold, after lower-casing
ClaimedAliases ==
    {<<<<"c", "e", "l", "s", "i", "u", "s">>, <<"C">>>>, <<<<"U00B0", "c">>, <<"C">>>>, <<<<"c">>, <<"C">>>>,
     <<<<"f", "a", "h", "r", "e", "n", "h", "e", "i", "t">>, <<"F">>>>, <<<<"f">>, <<"F">>>>,
     <<<<"k", "i", "l", "o", "p", "a", "s", "c", "a", "l">>, <<"k", "P", "a">>>>, <<<<"k", "p", "a">>, <<"k", "P", "a">>>>,
     <<<<"v", "o", "l", "t">>, <<"V">>>>, <<<<"v">>, <<"V">>>>,
     <<<<"o", "h", "m">>, <<"U03A9">>>>, <<<<"o", "m", "e", "g", "a">>, <<"U03A9">>>>}

\* C9: the unit label is lower-cased and looked up: celsius, (degree)c and c
\* give C, fahrenheit and f give F, kilopascal and kpa give kPa, volt and v
\* give V, ohm and omega give the omega sign; a token with no alias entry
\* comes back in its original form.
C9_AliasTable ==
    upc # "raw" =>
        /\ \A e \in ClaimedAliases : Lower(utok) = e[1] => uonce = e[2]
        /\ (Lower(utok) \notin UnitMapKeys \cup {e[1] : e \in ClaimedAliases})
                => uonce = utok

CanonicalUnits == {<<"C">>, <<"F">>, <<"k", "P", "a">>, <<"V">>, <<"U03A9">>, <<"k", "g">>, <<"m">>, <<"p", "s", "i">>}

\* C10: normalizing the result of a normalization gives that result again,
\* and every canonical token (C, F, kPa, V, omega sign, kg, m, psi) is
\* returned unchanged.
C10_Idempotent ==
    /\ upc = "twice" => utwice = uonce
    /\ (upc # "raw" /\ utok \in CanonicalUnits) => uonce = utok

\* an alias was replaced by its canonical token and normalized again
C10_Witness == upc = "twice" /\ uonce # utok /\ uonce \in CanonicalUnits

(***************************************************************************)
(* normalize_readings.py: cells, tables and the two loaders                *)
(***************************************************************************)
\* a cell of a DataFrame or a value of a JSON object: a string, a number,
\* NaN or None
Str(text) == [t |-> "str", s |-> text, n |-> 0]
Num(k) == [t |-> "num", s |-> <<>>, n |-> k]
NaN == [t |-> "nan", s |-> <<>>, n |-> 0]
None == [t |-> "none", s |-> <<>>, n |-> 0]

DigitChar(k) == CHOOSE c \in DigitChars : DigitValue(c) = k

\* str(k) for a number of at most two digits
NumText(k) == IF k < 10 THEN <<DigitChar(k)>> ELSE <<DigitChar(k \div 10), DigitChar(k % 10)>>

\* pd.DataFrame(): no columns, no rows
EmptyFrame == [cols |-> FALSE, rows |-> <<>>]

CANONICAL_COLS == <<"artifact_id", "sdc_kind", "unit_label", "value", "timestamp">>

\* read_csv(dtype=str, keep_default_na=False, na_values=["", "NA", "NaN"])
ReadCsvCell(text) == IF text \in {<<>>, <<"N", "A">>, <<"N", "a", "N">>} THEN NaN ELSE Str(text)

\* load_sensor_a: the five columns of the file under their canonical names
load_sensor_a(file) ==
    [cols |-> TRUE,
     rows |-> [i \in 1..Len(file.rows) |->
                  [c \in {CANONICAL_COLS[j] : j \in 1..5} |-> ReadCsvCell(file.rows[i][c])]]]

\* dict.get(key): None when the key is absent
Get(r, key) == IF key \in DOMAIN r THEN r[key] ELSE None

\* the truth value of a JSON value
Truthy(v) == \/ v.t = "str" /\ v.s # <<>>
             \/ v.t = "num" /\ v.n # 0

\* a or b or c
Or3(a, b, c) == IF Truthy(a) THEN a ELSE IF Truthy(b) THEN b ELSE c

RECURSIVE Flatten(_)
Flatten(ss) == IF ss = <<>> THEN <<>> ELSE Head(ss) \o Flatten(Tail(ss))

\* a parsed JSON value: an object, an array, or a cell (string, number, null)
JDict(fields) == [t |-> "dict", d |-> fields]
JList(items) == [t |-> "list", l |-> items]

\* the records of one group of the nested "readings" shape
GroupRecords(reading_group) ==
    LET entity_id == Get(reading_group.d, "entity_id")
        data == IF "data" \in DOMAIN reading_group.d THEN reading_group.d.data.l ELSE <<>>
    IN  [i \in 1..Len(data) |->
            [artifact_id |-> entity_id,
             sdc_kind |-> Get(data[i].d, "kind"),
             unit_label |-> Get(data[i].d, "unit"),
             value |-> Get(data[i].d, "value"),
             timestamp |-> Get(data[i].d, "time")]]

\* the key mapping of a flat record
FlatRecord(r) ==
    [artifact_id |-> Or3(Get(r, "artifact"), Get(r, "asset"), Get(r, "artifact_id")),
     sdc_kind |-> Or3(Get(r, "sdc"), Get(r, "measure_type"), Get(r, "sdc_kind")),
     unit_label |-> Or3(Get(r, "uom"), Get(r, "unit"), Get(r, "unit_label")),
     value |-> Or3(Get(r, "val"), Get(r, "reading"), Get(r, "value")),
     timestamp |-> Or3(Get(r, "ts"), Get(r, "time"), Get(r, "timestamp"))]

\* pd.DataFrame(list of dicts): an empty list gives a frame without columns
FrameOfRecords(records) == [cols |-> records # <<>>, rows |-> records]

\* a record list that takes a top-level object as the one record, whatever
\* its fields
RecordListOfObject(doc) ==
    IF ~doc.parses THEN SelectSeq(doc.lines, LAMBDA x : x.t # "blank")
    ELSE IF doc.obj.t = "list" THEN doc.obj.l
    ELSE <<doc.obj>>

\* lines 72-79: the record list of a document that is not in the nested shape
RecordList(doc) ==
    LET obj == doc.obj
        records ==
            IF doc.parses
            THEN IF obj.t = "dict"
                 THEN IF "records" \in DOMAIN obj.d THEN obj.d.records ELSE obj
                 ELSE IF obj.t = "list" THEN obj
                 ELSE JList(<<obj>>)
            ELSE \* json.loads of each line that is not blank
                 JList(SelectSeq(doc.lines, LAMBDA x : x.t # "blank"))
    IN  IF records.t = "list" THEN records.l ELSE <<records>>

\* load_sensor_b: the document is the text of the file as json.loads reads it,
\* or, when json.loads rejects the whole text, its lines as json.loads reads
\* each of them
load_sensor_b(file) ==
    LET obj == file.doc.obj
    IN  IF /\ file.doc.parses /\ obj.t = "dict"
           /\ "readings" \in DOMAIN obj.d /\ obj.d.readings.t = "list"
        THEN FrameOfRecords(SelectSeq(Flatten([i \in 1..Len(obj.d.readings.l) |->
                                                  GroupRecords(obj.d.readings.l[i])]),
                                      LAMBDA r : r.artifact_id.t # "none"))
        ELSE LET dicts == SelectSeq(RecordList(file.doc), LAMBDA r : r.t = "dict")
             IN  FrameOfRecords([i \in 1..Len(dicts) |-> FlatRecord(dicts[i].d)])

(***************************************************************************)
(* normalize_readings.py: to_iso8601 and normalize_and_clean               *)
(*                                                                         *)
(* A timestamp text is abbreviated: "T" and a digit d stand for a date and *)
(* time at hour d; a following "Z" says UTC, a following "-" and digit k   *)
(* say the zone k hours behind UTC, and no suffix leaves the zone out.     *)
(* The ISO-8601 text of hour h in UTC is "T", two digits and "Z".          *)
(***************************************************************************)
\* Every text of this form carries its full date: no field of the result is
\* taken from the clock.
\* dateparser.parse(text): the hour in UTC of a text it accepts, taking a
\* text without zone as UTC (lines 98-100), and -1 for a text it rejects
ParsedHour(text) ==
    IF Len(text) \in 2..4 /\ text[1] = "T" /\ text[2] \in DigitChars
    THEN IF Len(text) = 2 THEN DigitValue(text[2])
         ELSE IF Len(text) = 3 /\ text[3] = "Z" THEN DigitValue(text[2])
         ELSE IF Len(text) = 4 /\ text[3] = "-" /\ text[4] \in DigitChars
              THEN DigitValue(text[2]) + DigitValue(text[4])
         ELSE -1
    ELSE -1

\* str(x) of a cell, as astype(str) turns the cells of an object column
\* into text: a missing cell becomes the text "nan" or "None"
AsStr(x) ==
    CASE x.t = "str" -> x.s
      [] x.t = "num" -> NumText(x.n)
      [] x.t = "nan" -> <<"n", "a", "n">>
      [] x.t = "none" -> <<"N", "o", "n", "e">>

IsoText(h) == <<"T", DigitChar(h \div 10), DigitChar(h % 10), "Z">>

to_iso8601(x) ==
    LET h == ParsedHour(Strip(AsStr(x)))
    IN  IF h >= 0 THEN Str(IsoText(h)) ELSE None

\* pd.to_numeric(errors="coerce") on one cell
ToNumeric(x) ==
    CASE x.t = "num" -> x
      [] x.t = "str" -> IF IsNumericText(x.s) THEN Num(NumberOf(x.s)) ELSE NaN
      [] OTHER -> NaN

\* lines 110-127 on one row
NormalizeRow(row) ==
    [artifact_id |-> Str(Strip(AsStr(row.artifact_id))),
     sdc_kind |-> Str(Strip(AsStr(row.sdc_kind))),
     unit_label |-> Str(MapUnitLabel(Strip(AsStr(row.unit_label)))),
     value |-> ToNumeric(row.value),
     timestamp |-> to_iso8601(row.timestamp)]

\* isnull of a cell
IsNull(x) == x.t \in {"nan", "none"}

\* dropna(subset=the five columns), on rows that carry their index label
DropNa(rows) ==
    SelectSeq(rows, LAMBDA r : \A j \in 1..5 : ~IsNull(r.row[CANONICAL_COLS[j]]))

\* the order of sort_values(["artifact_id", "timestamp"])
RowBefore(r1, r2) ==
    \/ StrLess(r1.artifact_id.s, r2.artifact_id.s)
    \/ /\ r1.artifact_id.s = r2.artifact_id.s
       /\ StrLess(r1.timestamp.s, r2.timestamp.s)

\* a stable sort: a row goes behind the rows that are not after it
RECURSIVE InsertRow(_, _)
InsertRow(sorted, r) ==
    IF sorted = <<>> THEN <<r>>
    ELSE IF RowBefore(r.row, Head(sorted).row) THEN <<r>> \o sorted
    ELSE <<Head(sorted)>> \o InsertRow(Tail(sorted), r)

RECURSIVE SortRows(_)
SortRows(rows) ==
    IF rows = <<>> THEN <<>>
    ELSE InsertRow(SortRows(SubSeq(rows, 1, Len(rows) - 1)), rows[Len(rows)])

\* the dtype of the value column after to_numeric: a NaN makes it float64
ValueDtype(rows) ==
    IF \E i \in 1..Len(rows) : rows[i].value.t = "nan" THEN "float64" ELSE "int64"

\* an index that keeps the labels the rows had before
KeepIndex(labels) == labels

\* reset_index(drop=True): the labels 0..n-1
ResetIndex(labels) == [k \in 1..Len(labels) |-> k - 1]

\* normalize_and_clean on a frame that has the five columns, whose rows
\* concat(ignore_index=True) has labelled 0..N-1
normalize_and_clean(df) ==
    LET rows == [i \in 1..Len(df.rows) |-> NormalizeRow(df.rows[i])]
        labelled == [i \in 1..Len(rows) |-> [label |-> i - 1, row |-> rows[i]]]
        sorted == SortRows(DropNa(labelled))
    IN  [dtype |-> ValueDtype(rows),
         index |-> ResetIndex([k \in 1..Len(sorted) |-> sorted[k].label]),
         rows |-> [k \in 1..Len(sorted) |-> sorted[k].row]]

\* pd.concat([df_a, df_b, df_c], ignore_index=True)
Concat(frames) ==
    [cols |-> \E i \in 1..Len(frames) : frames[i].cols,
     rows |-> Flatten([i \in 1..Len(frames) |-> frames[i].rows])]

\* to_csv(index=False): one line of text cells per row; a float64 value is
\* written with its fraction
CsvLine(r, dtype) ==
    [artifact_id |-> r.artifact_id.s,
     sdc_kind |-> r.sdc_kind.s,
     unit_label |-> r.unit_label.s,
     value |-> IF dtype = "float64" THEN NumText(r.value.n) \o <<".", "0">>
               ELSE NumText(r.value.n),
     timestamp |-> r.timestamp.s]

(***************************************************************************)
(* SpecNorm: one run of the Normalizer's main on three source files        *)
(***************************************************************************)
GoodLine ==
    [artifact_id |-> <<"P", "1">>, sdc_kind |-> <<"t", "e", "m", "p", "e", "r", "a", "t", "u", "r", "e">>, unit_label |-> <<"c", "e", "l", "s", "i", "u", "s">>,
     value |-> <<"1">>, timestamp |-> <<"T", "1">>]

\* the lines of sensor_A.csv: a good line, or one with a single cell changed
ALines ==
    {GoodLine}
    \cup {[GoodLine EXCEPT !.artifact_id = x] : x \in {<<>>, <<" ">>, <<"B", " ", "7">>}}
    \cup {[GoodLine EXCEPT !.sdc_kind = x] : x \in {<<"N", "A">>, <<" ", "t", "e", "m", "p", " ">>}}
    \cup {[GoodLine EXCEPT !.unit_label = x] : x \in {<<>>, <<"c">>, <<"K", "P", "A">>}}
    \cup {[GoodLine EXCEPT !.value = x] : x \in {<<>>, <<"x">>, <<"2">>}}
    \cup {[GoodLine EXCEPT !.timestamp = x] : x \in {<<>>, <<"x">>, <<"T", "3", "Z">>, <<"T", "2", "-", "1">>}}

ATables == UNION {[1..k -> ALines] : k \in 0..MaxCsvRows}

\* the tables of sensor_C.csv
CTables ==
    {<<>>,
     <<[artifact_id |-> <<"B", "-", "7">>, sdc_kind |-> <<"p", "r", "e", "s", "s", "u", "r", "e">>, unit_label |-> <<"K", "P", "A">>,
        value |-> <<"2">>, timestamp |-> <<"T", "2", "-", "1">>]>>}

BReading ==
    [kind |-> Str(<<"v", "o", "l", "t", "a", "g", "e">>), unit |-> Str(<<"v">>), value |-> Num(3), time |-> Str(<<"T", "3", "Z">>)]

BFlat ==
    [artifact |-> Str(<<"P", "1">>), sdc |-> Str(<<"v", "o", "l", "t", "a", "g", "e">>), uom |-> Str(<<"v", "o", "l", "t">>),
     val |-> Num(4), ts |-> Str(<<"T", "4">>)]

\* a document json.loads accepts
JsonDoc(obj) == [parses |-> TRUE, obj |-> obj, lines |-> <<>>]
\* a document json.loads rejects as a whole, and its lines
LinesDoc(lines) == [parses |-> FALSE, obj |-> <<>>, lines |-> lines]
BlankLine == [t |-> "blank"]

\* the documents of sensor_B.json
BDocs ==
    {JsonDoc(JDict([readings |-> JList(<<JDict([entity_id |-> Str(<<"P", "1">>),
                                                data |-> JList(<<JDict(BReading)>>)])>>)])),
     JsonDoc(JDict([readings |-> JList(<<
        JDict([entity_id |-> None, data |-> JList(<<JDict(BReading)>>)]),
        JDict([entity_id |-> Str(<<"B", "-", "7">>),
               data |-> JList(<<JDict([kind |-> Str(<<"v", "o", "l", "t", "a", "g", "e">>), value |-> Num(3),
                                       time |-> Str(<<"T", "3", "Z">>)])>>)])>>)])),
     JsonDoc(JDict([readings |-> JList(<<>>)])),
     JsonDoc(JDict([records |-> JList(<<JDict(BFlat)>>)])),
     JsonDoc(JDict([records |-> JList(<<JDict([BFlat EXCEPT !.val = Num(0)])>>)])),
     JsonDoc(JDict([records |-> JDict(BFlat)])),
     JsonDoc(JList(<<JDict([asset |-> Str(<<"P", "1">>), measure_type |-> Str(<<"v", "o", "l", "t", "a", "g", "e">>),
                            unit |-> Str(<<"V">>), reading |-> Str(<<"5">>),
                            time |-> Str(<<"x">>)]),
                     Num(7)>>)),
     JsonDoc(JDict([artifact_id |-> Str(<<"P", "1">>), sdc_kind |-> Str(<<"v", "o", "l", "t", "a", "g", "e">>),
                    unit_label |-> Str(<<>>), value |-> Num(6),
                    timestamp |-> Str(<<"T", "6", "Z">>)])),
     JsonDoc(Num(7)),
     LinesDoc(<<JDict(BFlat), BlankLine,
                JDict([BFlat EXCEPT !.artifact = Str(<<"B", "-", "7">>)])>>)}

InitNorm ==
    /\ inA \in {[exists |-> FALSE, rows |-> <<>>]}
               \cup {[exists |-> TRUE, rows |-> t] : t \in ATables}
    /\ inB \in {[exists |-> FALSE, doc |-> [parses |-> FALSE, obj |-> <<>>, lines |-> <<>>]]}
               \cup {[exists |-> TRUE, doc |-> d] : d \in BDocs}
    /\ inC \in {[exists |-> FALSE, rows |-> <<>>]}
               \cup {[exists |-> TRUE, rows |-> t] : t \in CTables}
    /\ npc = "start"
    /\ dfs = <<>>
    /\ cleaned = [dtype |-> "int64", index |-> <<>>, rows |-> <<>>]
    /\ outFile = [exists |-> FALSE, rows |-> <<>>]
    /\ BuilderIdle /\ ttl = AbsentTtl /\ QcIdle /\ UnitIdle /\ SlugIdle

\* main, lines 159-168: the three frames
NormLoad ==
    /\ npc = "start"
    /\ dfs' = IF ~inA.exists \/ ~inB.exists \/ ~inC.exists
              THEN <<EmptyFrame, EmptyFrame, EmptyFrame>>
              ELSE <<load_sensor_a(inA), load_sensor_b(inB), load_sensor_a(inC)>>
    /\ npc' = "loaded"
    /\ UNCHANGED <<inA, inB, inC, cleaned, outFile, bvars, qvars, uvars, svars>>

\* main, lines 175-178: df["artifact_id"] of a frame without columns raises
\* KeyError, which nothing catches
NormClean ==
    /\ npc = "loaded"
    /\ IF Concat(dfs).cols
       THEN cleaned' = normalize_and_clean(Concat(dfs)) /\ npc' = "cleaned"
       ELSE cleaned' = cleaned /\ npc' = "raised"
    /\ UNCHANGED <<inA, inB, inC, dfs, outFile, bvars, qvars, uvars, svars>>

\* a writer that adds its lines to the lines the file already holds
NormWriteAppend ==
    /\ npc = "cleaned"
    /\ outFile' = [exists |-> TRUE,
                   rows |-> outFile.rows \o
                            [i \in 1..Len(cleaned.rows) |->
                                CsvLine(cleaned.rows[i], cleaned.dtype)]]
    /\ npc' = "written"
    /\ UNCHANGED <<inA, inB, inC, dfs, cleaned, bvars, qvars, uvars, svars>>

\* main, lines 181-185
NormWrite ==
    /\ npc = "cleaned"
    /\ outFile' = [exists |-> TRUE,
                   rows |-> [i \in 1..Len(cleaned.rows) |->
                                CsvLine(cleaned.rows[i], cleaned.dtype)]]
    /\ npc' = "written"
    /\ UNCHANGED <<inA, inB, inC, dfs, cleaned, bvars, qvars, uvars, svars>>

NextNorm == NormLoad \/ NormClean \/ NormWrite

SpecNorm == InitNorm /\ [][NextNorm]_vars

\* the frames main would hold if each absent source alone were empty
FramesOfPresent ==
    <<IF inA.exists THEN load_sensor_a(inA) ELSE EmptyFrame,
      IF inB.exists THEN load_sensor_b(inB) ELSE EmptyFrame,
      IF inC.exists THEN load_sensor_a(inC) ELSE EmptyFrame>>

AbsentSources == {f \in {"A", "B", "C"} : \/ f = "A" /\ ~inA.exists
                                          \/ f = "B" /\ ~inB.exists
                                          \/ f = "C" /\ ~inC.exists}

\* C5: when one of the three input files is absent the run does not abort:
\* only the absent source is an empty table, the rows of the present sources
\* are loaded and normalized, and the canonical table is written.
C5_MissingFileProceeds ==
    Cardinality(AbsentSources) = 1 =>
        /\ npc # "raised"
        /\ npc \in {"loaded", "cleaned", "written"} => dfs = FramesOfPresent
        /\ npc = "written" =>
              /\ outFile.exists
              /\ Len(outFile.rows) = Len(normalize_and_clean(Concat(FramesOfPresent)).rows)

\* a cell that holds a string with something in it besides white space
HasText(x) == x.t = "str" /\ Strip(x.s) # <<>>

\* an input row with its three string fields present, a number and a
\* timestamp that parse
CompleteRow(row) ==
    /\ HasText(row.artifact_id)
    /\ HasText(row.sdc_kind)
    /\ HasText(row.unit_label)
    /\ ToNumeric(row.value).t = "num"
    /\ to_iso8601(row.timestamp).t = "str"

\* C6: every row returned by normalize_and_clean has a non-empty artifact_id,
\* sdc_kind and unit_label that came from a complete input row, a number and
\* a timestamp; an input row with a missing or empty string field, or with a
\* number or timestamp that does not parse, is not in the output.
C6_OutputRowsComplete ==
    npc \in {"cleaned", "written"} =>
        LET input == Concat(dfs).rows
            complete == {i \in 1..Len(input) : CompleteRow(input[i])}
        IN  /\ \A k \in 1..Len(cleaned.rows) :
                  /\ cleaned.rows[k].artifact_id.s # <<>>
                  /\ cleaned.rows[k].sdc_kind.s # <<>>
                  /\ cleaned.rows[k].unit_label.s # <<>>
                  /\ cleaned.rows[k].value.t = "num"
                  /\ cleaned.rows[k].timestamp.t = "str"
                  /\ \E i \in complete : cleaned.rows[k] = NormalizeRow(input[i])
            /\ Len(cleaned.rows) = Cardinality(complete)

(***************************************************************************)
(* The Graph Builder when no row reaches it                                *)
(***************************************************************************)
\* main ran last, on an absent table or on one whose rows were all dropped
MainWithoutRows ==
    /\ bcalls # <<>>
    /\ \/ Last(bcalls) = "main:placeholder"
       \/ Last(bcalls) = "main" /\ BuilderRows = <<>>

NormRunAgain ==
    /\ npc \in {"written", "raised"}
    /\ npc' = "start"
    /\ dfs' = <<>>
    /\ cleaned' = [dtype |-> "int64", index |-> <<>>, rows |-> <<>>]
    /\ UNCHANGED <<inA, inB, inC, outFile, bvars, qvars, uvars, svars>>

\* the module-level script and main, in a process of the Graph Builder
RerunModule == npc = "off" /\ ModuleRowLoop
RerunMain == npc = "off" /\ Main

InitRerun == Init \/ InitNorm

NextRerun ==
    \/ RerunModule \/ RerunMain
    \/ NormLoad \/ NormClean \/ NormWrite \/ NormRunAgain

SpecRerun == InitRerun /\ [][NextRerun]_vars

ReachedAllMice ==
    \/ qpc = "all_mice"
    \/ qpc = "exited" /\ \E i \in 1..Len(qout) : qout[i] = "Complete pattern found"

\* the Measurement records of the loaded graph that lack a link
IncompleteRecords ==
    {m \in {t[1] : t \in {t \in qg : t[2] = RDF_type /\ t[3] = IRI_MICE}} :
        ~RecordComplete(qg, m)}

\* C13: the completeness check passes exactly if every subject typed
\* Measurement record has an is_measure_of edge to a typed Condition node and
\* a uses_measurement_unit edge to a typed Unit node, and the count it
\* reports is the number of distinct records that lack either.
C13_CompletenessCheck ==
    ReachedAllMice =>
        /\ NBad(qscript, qg) = Cardinality(IncompleteRecords)
        /\ qpc = "exited" =>
              /\ (Last(qout) = "RDF passes") <=> (IncompleteRecords = {})
              /\ (Last(qout) = "AssertionError: Some MICE are missing required links")
                    <=> (IncompleteRecords # {})

\* the third check failed on a record that lacks both links
C13_Witness ==
    /\ qpc = "exited"
    /\ Last(qout) = "AssertionError: Some MICE are missing required links"
    /\ MissingMeasureOf(qg) \cap MissingUnit(qg) # {}

\* the place of a message in the output, 0 if it was not printed
Printed(msg) ==
    IF \E i \in 1..Len(qout) : qout[i] = msg
    THEN CHOOSE i \in 1..Len(qout) : qout[i] = msg
    ELSE 0

FailureMessages ==
    {"AssertionError: Missing required typed nodes",
     "AssertionError: No complete pattern found",
     "AssertionError: Some MICE are missing required links"}

\* the output so far is in the order type-presence, pattern-existence,
\* completeness, closing message, and a failure message is the last one
OutputInOrder ==
    /\ Printed("Complete pattern found") > 0
          => 0 < Printed("Types present")
             /\ Printed("Types present") < Printed("Complete pattern found")
    /\ Printed("All MICE use exact IRIs") > 0
          => 0 < Printed("Complete pattern found")
             /\ Printed("Complete pattern found") < Printed("All MICE use exact IRIs")
    /\ Printed("RDF passes") > 0
          => 0 < Printed("All MICE use exact IRIs")
             /\ Printed("All MICE use exact IRIs") < Printed("RDF passes")
    /\ Printed("AssertionError: No complete pattern found") > 0
          => Printed("Types present") > 0
    /\ Printed("AssertionError: Some MICE are missing required links") > 0
          => Printed("Complete pattern found") > 0
    /\ \A i \in 1..Len(qout) :
          qout[i] \in FailureMessages
              => i = Len(qout) /\ qpc = "exited" /\ qexit > 0

\* C14: the checks run in the order type-presence, pattern-existence,
\* completeness; the first check that fails ends the run with a non-zero
\* status, after it no check is evaluated and no message printed; and the
\* closing message comes only after the three pass messages.
C14_CheckOrder ==
    /\ []OutputInOrder
    /\ [][/\ qpc # "exited"
          /\ qpc = "types" => qpc' \in {"pattern", "exited"}
          /\ qpc = "pattern" => qpc' \in {"all_mice", "exited"}
          /\ qpc = "all_mice" => qpc' = "exited"]_vars

\* the run ended in the pattern check, after the type check had passed
C14_Witness ==
    /\ qpc = "exited"
    /\ qout = <<"[ttl] triples", "Types present",
                "AssertionError: No complete pattern found">>

\* the key (artifact_id, timestamp) of the first row is not after that of
\* the second
KeyNotAfter(r1, r2) ==
    \/ StrLess(r1.artifact_id.s, r2.artifact_id.s)
    \/ /\ r1.artifact_id.s = r2.artifact_id.s
       /\ \/ r1.timestamp.s = r2.timestamp.s
          \/ StrLess(r1.timestamp.s, r2.timestamp.s)

\* C15: the rows normalize_and_clean returns are in ascending order of
\* (artifact_id, timestamp): each row's key is at most the key of the row
\* after it; and the index of the rows is 0..n-1.
C15_SortedAndRenumbered ==
    npc \in {"cleaned", "written"} =>
        /\ \A k \in 1..(Len(cleaned.rows) - 1) :
              KeyNotAfter(cleaned.rows[k], cleaned.rows[k + 1])
        /\ Len(cleaned.index) = Len(cleaned.rows)
        /\ \A k \in 1..Len(cleaned.index) : cleaned.index[k] = k - 1

\* a row was dropped and the first row returned was not the first one kept
C15_Witness ==
    /\ npc = "cleaned"
    /\ Len(cleaned.rows) >= 2
    /\ Len(cleaned.rows) < Len(Concat(dfs).rows)
    /\ \E i \in 2..Len(Concat(dfs).rows) :
          /\ cleaned.rows[1] = NormalizeRow(Concat(dfs).rows[i])
          /\ cleaned.rows[1] # NormalizeRow(Concat(dfs).rows[1])
          /\ NormalizeRow(Concat(dfs).rows[1]) \in {cleaned.rows[k] : k \in 1..Len(cleaned.rows)}

(***************************************************************************)
(* Properties of load_sensor_b                                             *)
(***************************************************************************)
\* the document is in the nested shape: an object with a list of readings
NestedShape(doc) ==
    /\ doc.parses /\ doc.obj.t = "dict"
    /\ "readings" \in DOMAIN doc.obj.d /\ doc.obj.d.readings.t = "list"

HasRecordsField(doc) ==
    doc.parses /\ doc.obj.t = "dict" /\ "records" \in DOMAIN doc.obj.d

\* the three frames are those of the loaders
SourcesLoaded ==
    /\ npc \in {"loaded", "cleaned", "written"}
    /\ inA.exists /\ inB.exists /\ inC.exists

\* the rows load_sensor_b makes of a record list: one per object in it
RowsOfRecords(records) ==
    LET dicts == SelectSeq(records, LAMBDA r : r.t = "dict")
    IN  [i \in 1..Len(dicts) |-> FlatRecord(dicts[i].d)]

\* C16: for a document that is not in the nested shape the records are: the
\* list in the records field, if the top-level object has one; else the
\* top-level list, or the single top-level object as a list of one; and for
\* a document that does not parse as a whole, one record per non-blank line.
C16_RecordList ==
    (SourcesLoaded /\ ~NestedShape(inB.doc)) =>
        LET doc == inB.doc
            rows == dfs[2].rows
        IN  /\ (HasRecordsField(doc) /\ doc.obj.d.records.t = "list")
                  => /\ RecordList(doc) = doc.obj.d.records.l
                     /\ rows = RowsOfRecords(doc.obj.d.records.l)
            /\ (doc.parses /\ ~HasRecordsField(doc) /\ doc.obj.t = "list")
                  => /\ RecordList(doc) = doc.obj.l
                     /\ rows = RowsOfRecords(doc.obj.l)
            /\ (doc.parses /\ ~HasRecordsField(doc) /\ doc.obj.t # "list")
                  => /\ RecordList(doc) = <<doc.obj>>
                     /\ rows = RowsOfRecords(<<doc.obj>>)
            /\ ~doc.parses
                  => /\ Len(RecordList(doc))
                          = Cardinality({i \in 1..Len(doc.lines) : doc.lines[i].t # "blank"})
                     /\ \A i \in 1..Len(doc.lines) :
                           doc.lines[i].t # "blank"
                              => \E k \in 1..Len(RecordList(doc)) :
                                    RecordList(doc)[k] = doc.lines[i]
                     /\ Len(rows) = Len(RecordList(doc))

\* the records of a document with a records field were loaded
C16_Witness ==
    /\ SourcesLoaded /\ npc = "loaded"
    /\ HasRecordsField(inB.doc) /\ inB.doc.obj.d.records.t = "list"
    /\ Len(dfs[2].rows) = 1

(***************************************************************************)
(* generate_triples and the order of the rows                              *)
(***************************************************************************)
\* the tables that hold the same rows in another order
Reorderings(rows) ==
    {[i \in 1..Len(rows) |-> rows[f[i]]] :
        f \in {g \in [1..Len(rows) -> 1..Len(rows)] :
                  \A i, j \in 1..Len(rows) : g[i] = g[j] => i = j}}

\* C17: the triples generate_triples produces depend on the rows of the
\* table only, not on their order: every permutation of the rows main built
\* the graph from gives the same graph.
C17_RowOrderIndependent ==
    bcalls = <<"main">> =>
        \A p \in Reorderings(BuilderRows) :
            generate_triples(p, HeaderTriples) = graph

FirstPresent(r, k1, k2, k3) ==
    IF k1 \in DOMAIN r THEN r[k1]
    ELSE IF k2 \in DOMAIN r THEN r[k2]
    ELSE IF k3 \in DOMAIN r THEN r[k3]
    ELSE None

\* the canonical fields of a flat record, each from its first alias key
FirstAliasRecord(r) ==
    [artifact_id |-> FirstPresent(r, "artifact", "asset", "artifact_id"),
     sdc_kind |-> FirstPresent(r, "sdc", "measure_type", "sdc_kind"),
     unit_label |-> FirstPresent(r, "uom", "unit", "unit_label"),
     value |-> FirstPresent(r, "val", "reading", "value"),
     timestamp |-> FirstPresent(r, "ts", "time", "timestamp")]

\* C19: each canonical field of a flat JSON record takes the value under the
\* first alias key the record has, whatever the value; and a record whose
\* five fields are present and parse, a value of 0 included, is in the
\* normalized output with that value.
C19_FlatRecordKept ==
    (SourcesLoaded /\ ~NestedShape(inB.doc)) =>
        LET dicts == SelectSeq(RecordList(inB.doc), LAMBDA r : r.t = "dict")
        IN  /\ dfs[2].rows = [i \in 1..Len(dicts) |-> FirstAliasRecord(dicts[i].d)]
            /\ npc \in {"cleaned", "written"} =>
                  \A i \in 1..Len(dicts) :
                      CompleteRow(FirstAliasRecord(dicts[i].d)) =>
                          \E k \in 1..Len(cleaned.rows) :
                              cleaned.rows[k] = NormalizeRow(FirstAliasRecord(dicts[i].d))

====
